---- MODULE Spec2Model ----
(***************************************************************************)
(* The URL-synchronised report view of react-query-param-filters:          *)
(* Report.jsx (state synchroniser and query codec), FilterComponent.jsx    *)
(* (filter editor) and DynamicTable (pagination handlers).                 *)
(*                                                                         *)
(* Strings are sequences of tokens: a token is one character where the     *)
(* code looks at characters (digits, sign, blank) and an opaque chunk of   *)
(* other characters elsewhere, so "-5" is <<"-","5">> and "Male" is        *)
(* <<"Male">>.  A query string is the sequence of its key=value pairs;     *)
(* a pair records how its key's array suffix is written ("", "[]" or       *)
(* "%5B%5D"), which is what URLSearchParams decodes and re-encodes.        *)
(***************************************************************************)
EXTENDS Integers, Sequences, FiniteSets, TLC

\* ---------------------------------------------------------------- bounds
MaxParams == 2      \* filter pairs in an initial query string (codec runs)
MaxHistory == 2     \* history entries the model follows
MaxInflight == 2    \* Data Provider calls outstanding at once
MaxPage == 1        \* highest page the "next page" button is followed to
MaxSelected == 1    \* values selected under one key in the filter editor

\* ------------------------------------------------------- JS number model
\* The value NaN of JavaScript numbers (parseInt of a non-numeric string).
NaN == -1000000

MathMax(a, b) == IF a = NaN \/ b = NaN THEN NaN ELSE IF a >= b THEN a ELSE b

MathMin(a, b) == IF a = NaN \/ b = NaN THEN NaN ELSE IF a <= b THEN a ELSE b

\* The number 1e21, the least at which Number.prototype.toString switches
\* to exponent notation; adding or subtracting 1 rounds back to it.
Exp21 == 2000000000

\* "1000000000000000000000", the decimal digits of 1e21
Exp21Digits == <<"1">> \o [i \in 1..21 |-> "0"]

Plus(a, b) ==
  IF a = NaN \/ b = NaN THEN NaN
  ELSE IF a = Exp21 \/ b = Exp21 THEN Exp21 ELSE a + b

\* Math.ceil(a / b) for a >= 0, b >= 1 (b is never 0: limit is max'ed with 1)
CeilDiv(a, b) == IF a = NaN \/ b = NaN THEN NaN ELSE (a + b - 1) \div b

Digits == <<"0", "1", "2", "3", "4", "5", "6", "7", "8", "9">>

IsDigit(c) == \E i \in 1..10 : Digits[i] = c

DigitVal(c) == (CHOOSE i \in 1..10 : Digits[i] = c) - 1

RECURSIVE SkipBlanks(_)
SkipBlanks(s) == IF s # <<>> /\ Head(s) = " " THEN SkipBlanks(Tail(s)) ELSE s

RECURSIVE ParseDigits(_, _, _)
ParseDigits(s, acc, seen) ==
  IF s # <<>> /\ IsDigit(Head(s))
  THEN ParseDigits(Tail(s), acc * 10 + DigitVal(Head(s)), TRUE)
  ELSE IF seen THEN acc ELSE NaN

\* parseInt(s, 10): blanks, an optional sign, then the longest digit prefix
parseInt(s) ==
  LET t == SkipBlanks(s)
      signed == t # <<>> /\ Head(t) \in {"+", "-"}
      u == IF signed THEN Tail(t) ELSE t
      n == IF /\ Len(u) >= Len(Exp21Digits)
              /\ SubSeq(u, 1, Len(Exp21Digits)) = Exp21Digits
              /\ (Len(u) > Len(Exp21Digits)
                    => ~IsDigit(u[Len(Exp21Digits) + 1]))
           THEN Exp21 ELSE ParseDigits(u, 0, FALSE)
  IN IF n = NaN THEN NaN ELSE IF signed /\ Head(t) = "-" THEN 0 - n ELSE n

RECURSIVE DigitsOf(_)
DigitsOf(n) ==
  IF n < 10 THEN <<Digits[n + 1]>>
  ELSE Append(DigitsOf(n \div 10), Digits[(n % 10) + 1])

\* Number.prototype.toString()
toString(n) ==
  IF n = NaN THEN <<"NaN">>
  ELSE IF n = Exp21 THEN <<"1", "e", "+", "2", "1">>
  ELSE IF n < 0 THEN <<"-">> \o DigitsOf(0 - n) ELSE DigitsOf(n)

\* ------------------------------------------------------ sequence helpers
Last(s) == s[Len(s)]

Range(s) == {s[i] : i \in 1..Len(s)}

RECURSIVE SelectSeqBy(_, _)
\* Array.prototype.filter with membership in a set as the test
SelectSeqBy(s, keep) ==
  IF s = <<>> THEN <<>>
  ELSE IF Head(s) \in keep THEN <<Head(s)>> \o SelectSeqBy(Tail(s), keep)
  ELSE SelectSeqBy(Tail(s), keep)

RECURSIVE Dedupe(_)
\* Array.from(new Set(values)): first occurrences, in order
Dedupe(s) ==
  IF s = <<>> THEN <<>>
  ELSE LET d == Dedupe(SubSeq(s, 1, Len(s) - 1))
       IN IF Last(s) \in Range(d) THEN d ELSE Append(d, Last(s))

\* An ordered map (a JS object with string keys, in insertion order) is a
\* sequence of [key, values] entries with distinct keys.
Keys(m) == {m[i].key : i \in 1..Len(m)}

Lookup(m, k) == (CHOOSE i \in 1..Len(m) : m[i].key = k)

\* Mutant of AccumulateValue: a later occurrence replaces the earlier ones
AccumulateValueLast(m, k, v) ==
  IF k \in Keys(m)
  THEN [m EXCEPT ![Lookup(m, k)].values = <<v>>]
  ELSE Append(m, [key |-> k, values |-> <<v>>])

\* obj[k] = f(obj[k]) : append to the entry of k, or insert it last
AccumulateValue(m, k, v) ==
  IF k \in Keys(m)
  THEN [m EXCEPT ![Lookup(m, k)].values = Append(@, v)]
  ELSE Append(m, [key |-> k, values |-> <<v>>])

\* {...obj, [k]: vs} : replace the entry of k in place, or insert it last
SetEntry(m, k, vs) ==
  IF k \in Keys(m)
  THEN [m EXCEPT ![Lookup(m, k)].values = vs]
  ELSE Append(m, [key |-> k, values |-> vs])

\* --------------------------------------------------- configuration props
allowedFilterKeys == <<"studentClass", "gender", "house">>

ReservedKeys == {"page", "limit"}

getFilterName(filterKey) ==
  CASE filterKey = "studentClass" -> "class"
    [] filterKey = "gender" -> "gender"
    [] filterKey = "house" -> "house"
    [] OTHER -> filterKey

getMockFilterOptions(filterName) ==
  CASE filterName = "class" ->
         <<<<"5">>, <<"6">>, <<"7">>, <<"8">>, <<"9">>, <<"1", "0">>>>
    [] filterName = "gender" -> <<<<"Male">>, <<"Female">>>>
    [] filterName = "house" ->
         <<<<"Red">>, <<"Green">>, <<"Blue">>, <<"Yellow">>>>
    [] OTHER -> <<>>

ValidOptions(key) == Range(getMockFilterOptions(getFilterName(key)))

\* -------------------------------------------------------- the query codec
\* One key=value pair of a query string.
Pair(k, b, v) == [key |-> k, br |-> b, val |-> v]

\* URLSearchParams decoding of a pair's key: "%5B%5D" and "[]" both read "[]"
DecodedKey(p) == [name |-> p.key, array |-> p.br # ""]

\* params.get(name): the value of the first pair whose key is exactly name
\* (<<>> stands for both null and "": each is falsy in `get(..) || default`)
ParamsGet(search, name) ==
  LET hits == {i \in 1..Len(search) :
                 DecodedKey(search[i]) = [name |-> name, array |-> FALSE]}
  IN IF hits = {} THEN <<>>
     ELSE search[CHOOSE i \in hits : \A j \in hits : i <= j].val

OrDefault(s, d) == IF s = <<>> THEN d ELSE s

\* Mutant of KeepsKey: the whitelist test is dropped
KeepsAnyKey(cleanKey, allowed) == cleanKey \notin ReservedKeys

\* allowedFilterKeys.includes(cleanKey) && !["page", "limit"].includes(cleanKey)
KeepsKey(cleanKey, allowed) ==
  cleanKey \in Range(allowed) /\ cleanKey \notin ReservedKeys

RECURSIVE CollectFilters(_, _, _)
CollectFilters(search, allowed, acc) ==
  IF search = <<>> THEN acc
  ELSE LET key == DecodedKey(Head(search))
           \* key.endsWith("[]") ? key.slice(0, -2) : key
           cleanKey == key.name
       IN CollectFilters(Tail(search), allowed,
            IF KeepsKey(cleanKey, allowed)
            THEN AccumulateValue(acc, cleanKey, Head(search).val)
            ELSE acc)

parseUrlParams(search, allowed) ==
  LET page == MathMax(1, parseInt(OrDefault(ParamsGet(search, "page"), <<"1">>)))
      limit == MathMin(MathMax(1,
                 parseInt(OrDefault(ParamsGet(search, "limit"), <<"2", "0">>))), 50)
  IN [page |-> Plus(page, -1), limit |-> limit,
      filters |-> CollectFilters(search, allowed, <<>>)]

RECURSIVE AppendValues(_, _)
\* values.forEach(v => params.append(`${key}[]`, v)); toString() writes the
\* brackets percent-encoded
AppendValues(key, values) ==
  IF values = <<>> THEN <<>>
  ELSE <<Pair(key, "%5B%5D", Head(values))>> \o AppendValues(key, Tail(values))

RECURSIVE AppendFilters(_)
AppendFilters(filters) ==
  IF filters = <<>> THEN <<>>
  ELSE AppendValues(Head(filters).key, Head(filters).values)
         \o AppendFilters(Tail(filters))

PageLimitPairs(page, limit) ==
  <<Pair("page", "", toString(Plus(page, 1))), Pair("limit", "", toString(limit))>>

\* The query string the initialization effect rebuilds (Report.jsx 95-104)
InitQuery(page, limit, filters) ==
  PageLimitPairs(page, limit) \o AppendFilters(filters)

RECURSIVE MergeFilterValues(_, _)
\* filterValues[key] = new Set(values), or add to the Set already there
MergeFilterValues(filters, acc) ==
  IF filters = <<>> THEN acc
  ELSE LET f == Head(filters)
           old == IF f.key \in Keys(acc) THEN acc[Lookup(acc, f.key)].values
                  ELSE <<>>
       IN MergeFilterValues(Tail(filters),
            SetEntry(acc, f.key, Dedupe(old \o f.values)))

\* The query string the URL sync effect builds (Report.jsx 121-144)
SyncQuery(page, limit, filters) ==
  PageLimitPairs(page, limit)
    \o AppendFilters(MergeFilterValues(filters, <<>>))

RECURSIVE FilterData(_, _)
\* appliedFilter.reduce((acc, filterObj) => ({...acc, ...filterObj}), {})
FilterData(filters, acc) ==
  IF filters = <<>> THEN acc
  ELSE FilterData(Tail(filters),
         SetEntry(acc, Head(filters).key, Head(filters).values))

apiParams(page, limit, filters) ==
  [page |-> Plus(page, 1), limit |-> limit,
   filters |-> FilterData(filters, <<>>)]

\* ------------------------------------------------------------ the state
VARIABLES
  history,          \* browser history: the query string of each entry,
                    \* up to the current one
  initialSearch,    \* location.search the page was opened with
  pc,               \* "mount", "init", "pending" (effects queued) or "idle"
  initialized,
  showLoader,
  pageNumber,
  itemsPerPage,
  appliedFilter,    \* sequence of single-key fragments [key, values]
  filterOpen,
  tempFilters,      \* FilterComponent's ordered map key -> values
  columnTitles,
  rowsData,
  totalItems,
  snackbarMessage,
  inflight,         \* getReport calls not yet settled, in trigger order
  lastWriter        \* which call wrote the display last: latest or stale

vars == <<history, initialSearch, pc, initialized, showLoader, pageNumber,
          itemsPerPage, appliedFilter, filterOpen, tempFilters, columnTitles,
          rowsData, totalItems, snackbarMessage, inflight, lastWriter>>

reportState == <<pageNumber, itemsPerPage, appliedFilter>>

display == <<columnTitles, rowsData, totalItems>>

editor == <<filterOpen, tempFilters>>

\* location.search.slice(1) of the current history entry
location == Last(history)

\* ------------------------------------------------ inputs the model draws
InitPageParts ==
  {<<>>, <<Pair("page", "", <<"6">>)>>, <<Pair("page", "", <<"abc">>)>>}

InitLimitParts ==
  {<<>>, <<Pair("limit", "", <<"2", "0">>)>>, <<Pair("limit", "", <<"abc">>)>>}

InitFilterParts ==
  { <<>>,
    <<Pair("gender", "%5B%5D", <<"Female">>)>>,
    <<Pair("gender", "[]", <<"Female">>)>>,
    <<Pair("gender", "[]", <<"Alien">>)>>,
    <<Pair("gender", "[]", <<"Male">>), Pair("gender", "[]", <<"Male">>)>>,
    <<Pair("secretKey", "[]", <<"x">>), Pair("house", "", <<"Red">>)>> }

InitSearches ==
  {p \o l : p \in InitPageParts, l \in InitLimitParts} \cup InitFilterParts

\* Query strings for the runs that exercise the codec alone
CodecNumbers ==
  { <<>>, <<"0">>, <<"-", "5">>, <<"1">>, <<"2", "0">>, <<"5", "0">>,
    <<"5", "1">>, <<"1", "0", "0", "0">>, <<"abc">>, <<"7", "x">> }

CodecFilterPairs ==
  { Pair("gender", "[]", <<"Male">>), Pair("gender", "%5B%5D", <<"Male">>),
    Pair("gender", "", <<"Female">>), Pair("studentClass", "[]", <<"5">>),
    Pair("secretKey", "[]", <<"x">>), Pair("page", "[]", <<"3">>),
    Pair("gender", "[]", <<"Alien">>) }

CodecSearches ==
  {p \o l \o f :
     p \in {<<>>} \cup {<<Pair("page", "", v)>> : v \in CodecNumbers},
     l \in {<<>>} \cup {<<Pair("limit", "", v)>> : v \in CodecNumbers},
     f \in UNION {[1..n -> CodecFilterPairs] : n \in 0..MaxParams}}

\* Query strings for the runs that normalize twice: the codec's, and a
\* page number large enough to be written in exponent notation
NormalizeSearches ==
  CodecSearches
    \cup {<<Pair("page", "", Exp21Digits)>> \o l :
            l \in {<<>>} \cup {<<Pair("limit", "", v)>> : v \in CodecNumbers}}

\* What getReport may answer: a well-formed object, an object without the
\* expected fields, a non-object, or a rejection.
Totals == {0, 7, 45}

RowLens == {0, 1}

Responses ==
  {r \in [kind : {"ok"}, total : Totals, len : RowLens] : r.len <= r.total}
  \cup {[kind |-> "empty", total |-> NaN, len |-> NaN],
        [kind |-> "null", total |-> NaN, len |-> NaN],
        [kind |-> "reject", total |-> NaN, len |-> NaN]}

\* rowsPerPageOptions of the TablePagination
RowsPerPageOptions == {5, 10, 20, 50}

\* ---------------------------------------------------------------- Init
\* The useState initial values; the effects of the first render are queued.
InitFrom(searches) ==
  /\ initialSearch \in searches
  /\ history = <<initialSearch>>
  /\ pc = "mount"
  /\ initialized = FALSE
  /\ showLoader = TRUE
  /\ pageNumber = 0
  /\ itemsPerPage = 20
  /\ appliedFilter = <<>>
  /\ filterOpen = FALSE
  /\ tempFilters = <<>>
  /\ columnTitles = "none"
  /\ rowsData = 0
  /\ totalItems = 0
  /\ snackbarMessage = "none"
  /\ inflight = <<>>
  /\ lastWriter = "none"

Init == InitFrom(InitSearches)

\* navigate(url, {replace: true}) / navigate(url, {replace: false})
NavigateReplace(h, q) == [h EXCEPT ![Len(h)] = q]

NavigatePush(h, q) == Append(h, q)

\* ------------------------------------------------- the two state effects
\* Mutant of SyncUrl: the new query string is pushed without comparing it
SyncUrlAlways(init, h, loc, page, limit, filters) ==
  IF ~init THEN h
  ELSE NavigatePush(h, SyncQuery(page, limit, filters))

\* URL sync effect, Report.jsx 118-151.  init and loc are the initialized
\* flag and the location of the render the effect belongs to.
SyncUrl(init, h, loc, page, limit, filters) ==
  IF ~init THEN h
  ELSE LET newQuery == SyncQuery(page, limit, filters)
       IN IF newQuery # loc THEN NavigatePush(h, newQuery) ELSE h

\* A call of getReport: the values fetchData closes over and its apiParams
Call(page, limit, filters) ==
  [pageNumber |-> page, itemsPerPage |-> limit,
   params |-> apiParams(page, limit, filters), latest |-> TRUE]

\* Mutant of StartFetch: the `if (!initialized) return` guard is dropped
StartFetchUnguarded(init, calls, page, limit, filters) ==
  Append([i \in 1..Len(calls) |-> [calls[i] EXCEPT !.latest = FALSE]],
         Call(page, limit, filters))

\* Data fetching effect up to the await, Report.jsx 155-178
StartFetch(init, calls, page, limit, filters) ==
  IF ~init THEN calls
  ELSE Append([i \in 1..Len(calls) |-> [calls[i] EXCEPT !.latest = FALSE]],
              Call(page, limit, filters))

\* Both effects, in declaration order, for one committed render;
\* setShowLoader(true) is reached only past the fetch effect's guard
RunEffects(init, e, loc, page, limit, filters) ==
  [history |-> SyncUrl(init, e.history, loc, page, limit, filters),
   inflight |-> StartFetch(init, e.inflight, page, limit, filters),
   loader |-> init \/ e.loader]

Current == [history |-> history, inflight |-> inflight, loader |-> showLoader]

WithinBounds(e) ==
  Len(e.history) <= MaxHistory /\ Len(e.inflight) <= MaxInflight

\* -------------------------------------------- the effects of the mount
\* Report.jsx 87-113, then the two state effects of the same first render,
\* which see initialized = false and the state and location of that render.
InitEffect ==
  /\ pc = "mount"
  /\ ~initialized
  /\ LET parsed == parseUrlParams(location, allowedFilterKeys)
         newQuery == InitQuery(parsed.page, parsed.limit, parsed.filters)
         replaced == IF newQuery # location
                     THEN NavigateReplace(history, newQuery) ELSE history
         e == RunEffects(initialized, [Current EXCEPT !.history = replaced],
                         location, pageNumber, itemsPerPage, appliedFilter)
     IN /\ pageNumber' = parsed.page
        /\ itemsPerPage' = parsed.limit
        /\ appliedFilter' = parsed.filters
        /\ history' = e.history
        /\ inflight' = e.inflight
        /\ showLoader' = e.loader
  /\ initialized' = TRUE
  /\ pc' = "init"
  /\ UNCHANGED <<initialSearch, editor, display, snackbarMessage, lastWriter>>

\* The queued effects of a render that no discrete event caused (the first
\* render after initialization, or after a pagination correction) run.
FlushEffects ==
  /\ pc \in {"init", "pending"}
  /\ LET e == RunEffects(initialized, Current, location,
                         pageNumber, itemsPerPage, appliedFilter)
     IN /\ WithinBounds(e)
        /\ history' = e.history
        /\ inflight' = e.inflight
        /\ showLoader' = e.loader
  /\ pc' = "idle"
  /\ UNCHANGED <<initialSearch, initialized, reportState, editor, display,
                 snackbarMessage, lastWriter>>

\* --------------------------------------------------- a call settles
RemoveAt(s, i) == SubSeq(s, 1, i - 1) \o SubSeq(s, i + 1, Len(s))

\* JS comparisons: false whenever an operand is NaN
GreaterEq(a, b) == a # NaN /\ b # NaN /\ a >= b

Greater(a, b) == a # NaN /\ b # NaN /\ a > b

\* Mutant of NeedsCorrection: an empty result resets the page whatever it is
NeedsCorrectionAnyPage(call, total) ==
  LET totalPages == CeilDiv(total, call.itemsPerPage)
  IN \/ GreaterEq(call.pageNumber, totalPages) /\ Greater(totalPages, 0)
     \/ totalPages = 0

\* Report.jsx 181-190: must this response reset the page instead of showing?
NeedsCorrection(call, total) ==
  LET totalPages == CeilDiv(total, call.itemsPerPage)
  IN \/ GreaterEq(call.pageNumber, totalPages) /\ Greater(totalPages, 0)
     \/ totalPages = 0 /\ call.pageNumber # 0

WriterOf(call) == IF call.latest THEN "latest" ELSE "stale"

\* Mutant of ClearDisplay: the display keeps what it showed
KeepDisplay == UNCHANGED <<columnTitles, rowsData, totalItems>>

\* setColumnTitles([]); setRowsData([]); setTotalItems(0)
ClearDisplay ==
  /\ columnTitles' = "none"
  /\ rowsData' = 0
  /\ totalItems' = 0

\* Mutant of Notice: the two notices are exchanged
NoticeExchanged(r, shown) ==
  IF r.len = 0 /\ Greater(r.total, 0) THEN "noDataFilters"
  ELSE IF r.total = 0 THEN "noDataPage"
  ELSE shown

\* Report.jsx 196-203: the notice showSnackbar is called with after a
\* display commit, or the one already shown when it is not called
Notice(r, shown) ==
  IF r.len = 0 /\ Greater(r.total, 0) THEN "noDataPage"
  ELSE IF r.total = 0 THEN "noDataFilters"
  ELSE shown

\* Mutant of HideLoader: the loader is left as it is
LeaveLoader == UNCHANGED showLoader

\* finally { setShowLoader(false) }
HideLoader == showLoader' = FALSE

\* fetchData after the await, Report.jsx 178-221
fetchData(i, r) ==
  LET call == inflight[i]
  IN /\ inflight' = RemoveAt(inflight, i)
     /\ HideLoader
     /\ CASE r.kind = "reject" ->
               /\ ClearDisplay
               /\ snackbarMessage' = "error"
               /\ lastWriter' = WriterOf(call)
               /\ UNCHANGED <<pageNumber, pc>>
          [] r.kind = "null" ->
               /\ ClearDisplay
               /\ snackbarMessage' = "invalid"
               /\ lastWriter' = WriterOf(call)
               /\ UNCHANGED <<pageNumber, pc>>
          [] OTHER ->
               IF NeedsCorrection(call, r.total)
               THEN /\ pageNumber' = 0
                    /\ pc' = IF pageNumber # 0 THEN "pending" ELSE pc
                    /\ UNCHANGED <<display, snackbarMessage, lastWriter>>
               ELSE /\ columnTitles' = IF r.kind = "ok" THEN "dataMapping"
                                       ELSE "none"
                    /\ rowsData' = IF r.len = NaN THEN 0 ELSE r.len
                    /\ totalItems' = IF r.total = NaN THEN 0 ELSE r.total
                    /\ snackbarMessage' = Notice(r, snackbarMessage)
                    /\ lastWriter' = WriterOf(call)
                    /\ UNCHANGED <<pageNumber, pc>>
     /\ UNCHANGED <<history, initialSearch, initialized, itemsPerPage,
                    appliedFilter, editor>>

FetchSettles ==
  /\ pc = "idle"
  /\ \E i \in 1..Len(inflight) : \E r \in Responses : fetchData(i, r)

\* ------------------------------------------------ discrete user events
\* A click is handled with the props of the committed render; React then
\* runs effects still queued from that render, renders the handler's
\* updates and runs the effects of that render at once (they are the
\* result of a discrete event).  page/limit/filters are the ReportState the
\* handler leaves; changed says whether an effect dependency changed.
DiscreteEvent(page, limit, filters, changed) ==
  LET e0 == IF pc = "pending"
            THEN RunEffects(initialized, Current, location,
                            pageNumber, itemsPerPage, appliedFilter)
            ELSE Current
      e1 == IF changed
            THEN RunEffects(initialized, e0, Last(e0.history),
                            page, limit, filters)
            ELSE e0
  IN /\ pc \in {"pending", "idle"}
     /\ WithinBounds(e1)
     /\ history' = e1.history
     /\ inflight' = e1.inflight
     /\ showLoader' = e1.loader
     /\ pc' = "idle"
     /\ pageNumber' = page
     /\ itemsPerPage' = limit
     /\ appliedFilter' = filters

\* The table is rendered when !showLoader; the open drawer is modal over it.
TableUsable == ~showLoader /\ ~filterOpen

\* The pages the TablePagination buttons offer: back unless page === 0,
\* next unless page >= Math.ceil(count / rowsPerPage) - 1
OfferedPages ==
  {Plus(pageNumber, -1) : x \in {y \in {0} : pageNumber # 0}}
  \cup {Plus(pageNumber, 1) : x \in {y \in {0} :
          /\ ~GreaterEq(pageNumber,
                        Plus(CeilDiv(totalItems, itemsPerPage), -1))
          /\ pageNumber < MaxPage}}

\* DynamicTable, handleChangePage: setPageNumber(newPage)
handleChangePage(newPage) ==
  /\ TableUsable
  /\ DiscreteEvent(newPage, itemsPerPage, appliedFilter, newPage # pageNumber)
  /\ UNCHANGED <<initialSearch, initialized, editor, display,
                 snackbarMessage, lastWriter>>

\* Mutant of handleChangeRowsPerPage: the page is not reset
handleChangeRowsPerPageKeepPage(value) ==
  /\ TableUsable
  /\ DiscreteEvent(pageNumber, parseInt(toString(value)), appliedFilter,
                   parseInt(toString(value)) # itemsPerPage)
  /\ UNCHANGED <<initialSearch, initialized, editor, display,
                 snackbarMessage, lastWriter>>

\* DynamicTable, handleChangeRowsPerPage:
\* setItemsPerPage(parseInt(event.target.value, 10)); setPageNumber(0)
handleChangeRowsPerPage(value) ==
  /\ TableUsable
  /\ DiscreteEvent(0, parseInt(toString(value)), appliedFilter,
                   parseInt(toString(value)) # itemsPerPage \/ pageNumber # 0)
  /\ UNCHANGED <<initialSearch, initialized, editor, display,
                 snackbarMessage, lastWriter>>

RECURSIVE InitialTempUnvalidated(_, _)
\* Mutant of InitialTemp: the values are not checked against the options
InitialTempUnvalidated(filters, acc) ==
  IF filters = <<>> THEN acc
  ELSE LET f == Head(filters)
       IN InitialTempUnvalidated(Tail(filters),
            IF f.key \in Range(allowedFilterKeys)
            THEN SetEntry(acc, f.key, f.values)
            ELSE acc)

RECURSIVE InitialTemp(_, _)
\* FilterComponent.jsx 48-74 and 115-135: appliedFilter's fragments of
\* allowed keys, each value list filtered to the valid options
InitialTemp(filters, acc) ==
  IF filters = <<>> THEN acc
  ELSE LET f == Head(filters)
       IN InitialTemp(Tail(filters),
            IF f.key \in Range(allowedFilterKeys)
            THEN SetEntry(acc, f.key, SelectSeqBy(f.values, ValidOptions(f.key)))
            ELSE acc)

\* The filter button (rendered when !filterOpen && !showLoader):
\* setFilterOpen(true) mounts FilterComponent, whose useState initializer runs
OpenFilter ==
  /\ ~filterOpen
  /\ ~showLoader
  /\ filterOpen' = TRUE
  /\ tempFilters' = InitialTemp(appliedFilter, <<>>)
  /\ DiscreteEvent(pageNumber, itemsPerPage, appliedFilter, FALSE)
  /\ UNCHANGED <<initialSearch, initialized, display, snackbarMessage,
                 lastWriter>>

\* tempFilters[filterKey] || []
SelectedValues(filterKey) ==
  IF filterKey \in Keys(tempFilters)
  THEN tempFilters[Lookup(tempFilters, filterKey)].values ELSE <<>>

\* What the multiple Select reports when one option is clicked: the
\* selection without it, or with it added last
Toggle(selected, option) ==
  IF option \in Range(selected) THEN SelectSeqBy(selected, Range(selected) \ {option})
  ELSE Append(selected, option)

\* Mutant of NonEmptyEntries: keys with an empty selection are kept
AllEntries(m) == m

RECURSIVE NonEmptyEntries(_)
\* Object.entries(tempFilters).filter(([, values]) => values && values.length > 0)
NonEmptyEntries(m) ==
  IF m = <<>> THEN <<>>
  ELSE IF Len(Head(m).values) > 0
       THEN <<Head(m)>> \o NonEmptyEntries(Tail(m))
       ELSE NonEmptyEntries(Tail(m))

\* Mutant of handleFilterChange: the edit is committed as it is made
handleFilterChangeLive(filterKey, newSelectedValues) ==
  /\ filterOpen
  /\ pc = "idle"
  /\ tempFilters' = SetEntry(tempFilters, filterKey, newSelectedValues)
  /\ appliedFilter' = NonEmptyEntries(tempFilters')
  /\ UNCHANGED <<history, initialSearch, pc, initialized, showLoader,
                 pageNumber, itemsPerPage, filterOpen, display,
                 snackbarMessage, inflight, lastWriter>>

\* FilterComponent.jsx 78-84
handleFilterChange(filterKey, newSelectedValues) ==
  /\ filterOpen
  /\ pc = "idle"
  /\ tempFilters' = SetEntry(tempFilters, filterKey, newSelectedValues)
  /\ UNCHANGED <<history, initialSearch, pc, initialized, showLoader,
                 reportState, filterOpen, display, snackbarMessage, inflight,
                 lastWriter>>

\* The options the model's user clicks, per filter key
EditOptions(filterKey) ==
  CASE filterKey = "gender" -> {<<"Male">>, <<"Female">>}
    [] filterKey = "house" -> {<<"Red">>}
    [] OTHER -> {}

EditFilter ==
  \E filterKey \in Range(allowedFilterKeys) :
    \E option \in EditOptions(filterKey) \cap ValidOptions(filterKey) :
      /\ Len(Toggle(SelectedValues(filterKey), option)) <= MaxSelected
      /\ handleFilterChange(filterKey, Toggle(SelectedValues(filterKey), option))

\* FilterComponent.jsx 88-96.  setAppliedFilter gets a new array, so the
\* effects that depend on appliedFilter run whatever its content.
applyFilters ==
  /\ filterOpen
  /\ pc = "idle"
  /\ DiscreteEvent(pageNumber, itemsPerPage, NonEmptyEntries(tempFilters), TRUE)
  /\ filterOpen' = FALSE
  /\ UNCHANGED <<initialSearch, initialized, tempFilters, display,
                 snackbarMessage, lastWriter>>

\* Mutant of resetFilters: only the editor's selections are cleared
resetFiltersTempOnly ==
  /\ filterOpen
  /\ pc = "idle"
  /\ tempFilters' = [i \in 1..Len(allowedFilterKeys) |->
                       [key |-> allowedFilterKeys[i], values |-> <<>>]]
  /\ filterOpen' = FALSE
  /\ UNCHANGED <<history, initialSearch, pc, initialized, showLoader,
                 reportState, display, snackbarMessage, inflight, lastWriter>>

\* FilterComponent.jsx 99-109
resetFilters ==
  /\ filterOpen
  /\ pc = "idle"
  /\ tempFilters' = [i \in 1..Len(allowedFilterKeys) |->
                       [key |-> allowedFilterKeys[i], values |-> <<>>]]
  /\ DiscreteEvent(pageNumber, itemsPerPage, <<>>, TRUE)
  /\ filterOpen' = FALSE
  /\ UNCHANGED <<initialSearch, initialized, display, snackbarMessage,
                 lastWriter>>

\* Mutant of handleClose: closing commits the edits instead of dropping them
handleCloseKeepingEdits ==
  /\ filterOpen
  /\ pc = "idle"
  /\ appliedFilter' = NonEmptyEntries(tempFilters)
  /\ filterOpen' = FALSE
  /\ UNCHANGED <<history, initialSearch, pc, initialized, showLoader,
                 pageNumber, itemsPerPage, tempFilters, display,
                 snackbarMessage, inflight, lastWriter>>

\* FilterComponent.jsx 114-138
handleClose ==
  /\ filterOpen
  /\ pc = "idle"
  /\ tempFilters' = InitialTemp(appliedFilter, <<>>)
  /\ filterOpen' = FALSE
  /\ UNCHANGED <<history, initialSearch, pc, initialized, showLoader,
                 reportState, display, snackbarMessage, inflight, lastWriter>>

ChangePage == \E newPage \in OfferedPages : handleChangePage(newPage)

ChangeRowsPerPage ==
  \E value \in RowsPerPageOptions : handleChangeRowsPerPage(value)

Next ==
  \/ InitEffect
  \/ FlushEffects
  \/ FetchSettles
  \/ ChangePage
  \/ ChangeRowsPerPage
  \/ OpenFilter
  \/ EditFilter
  \/ applyFilters
  \/ resetFilters
  \/ handleClose

Spec == Init /\ [][Next]_vars

\* A Data Provider that answers every call successfully, with a total that
\* depends on the filter parameters only: 45 rows unfiltered, 7 under valid
\* filter values, none under a value no row has.
SteadyTotal(filters) ==
  IF filters = <<>> THEN 45
  ELSE IF \A i \in 1..Len(filters) :
            Range(filters[i].values) \subseteq ValidOptions(filters[i].key)
       THEN 7 ELSE 0

SteadyResponse(call) ==
  LET total == SteadyTotal(call.params.filters)
      page == call.params.page
      limit == call.params.limit
  IN [kind |-> "ok", total |-> total,
      len |-> IF page # NaN /\ limit # NaN /\ (page - 1) * limit < total
              THEN 1 ELSE 0]

FetchAnswers ==
  /\ pc = "idle"
  /\ \E i \in 1..Len(inflight) : fetchData(i, SteadyResponse(inflight[i]))

NextAnswering ==
  \/ InitEffect
  \/ FlushEffects
  \/ FetchAnswers
  \/ ChangePage
  \/ ChangeRowsPerPage
  \/ OpenFilter
  \/ EditFilter
  \/ applyFilters
  \/ resetFilters
  \/ handleClose

\* Queued effects are run and every call is answered.
SpecAnswering ==
  /\ Init
  /\ [][NextAnswering]_vars
  /\ WF_vars(InitEffect)
  /\ WF_vars(FlushEffects)
  /\ WF_vars(FetchAnswers)

\* The browser's back button.  The location changes and Report renders
\* again, but no effect has a changed dependency (Report.jsx 113, 151, 225)
\* and nothing reads the new location: the state is left as it is.
GoBack ==
  /\ initialized
  /\ pc = "idle"
  /\ Len(history) > 1
  /\ history' = SubSeq(history, 1, Len(history) - 1)
  /\ UNCHANGED <<initialSearch, pc, initialized, showLoader, reportState,
                 editor, display, snackbarMessage, inflight, lastWriter>>

NextNavigation == NextAnswering \/ GoBack

\* Opening URLs of the runs with history navigation
NavigationSearches ==
  {<<>>, <<Pair("page", "", <<"6">>)>>,
   <<Pair("gender", "%5B%5D", <<"Female">>)>>}

InitNavigation == InitFrom(NavigationSearches)

\* The view with history navigation, over the answering Data Provider.
SpecNavigation == InitNavigation /\ [][NextNavigation]_vars

\* ------------------------------------------------- the mock Data Provider
Student(id, name, class, gender, house) ==
  [id |-> id, name |-> name, class |-> class, gender |-> <<gender>>,
   house |-> <<house>>]

\* The 26 fixture records of mockApi.js
allSchoolData ==
  <<
     Student(1, "Alice Smith", 8, "Female", "Red"),
     Student(2, "Bob Johnson", 9, "Male", "Green"),
     Student(3, "Charlie Brown", 7, "Male", "Blue"),
     Student(4, "Diana Prince", 10, "Female", "Yellow"),
     Student(5, "Eve Adams", 6, "Female", "Red"),
     Student(6, "Frank White", 5, "Male", "Green"),
     Student(7, "Grace Lee", 8, "Female", "Blue"),
     Student(8, "Henry King", 9, "Male", "Yellow"),
     Student(9, "Ivy Queen", 7, "Female", "Red"),
     Student(10, "Jack Sparrow", 10, "Male", "Green"),
     Student(11, "Karen Davis", 6, "Female", "Blue"),
     Student(12, "Liam Neeson", 5, "Male", "Yellow"),
     Student(13, "Mia Khalifa", 8, "Female", "Red"),
     Student(14, "Noah Centineo", 9, "Male", "Green"),
     Student(15, "Olivia Rodrigo", 7, "Female", "Blue"),
     Student(16, "Peter Parker", 10, "Male", "Yellow"),
     Student(17, "Quinn Fabray", 6, "Female", "Red"),
     Student(18, "Ryan Gosling", 5, "Male", "Green"),
     Student(19, "Sarah Connor", 8, "Female", "Blue"),
     Student(20, "Tom Holland", 9, "Male", "Yellow"),
     Student(21, "Uma Thurman", 7, "Female", "Red"),
     Student(22, "Victor Stone", 10, "Male", "Green"),
     Student(23, "Wendy Darling", 6, "Female", "Blue"),
     Student(24, "Xavier Woods", 5, "Male", "Yellow"),
     Student(25, "Yara Greyjoy", 8, "Female", "Red"),
     Student(26, "Zack Morris", 9, "Male", "Green")
  >>

\* (page - 1) * limit in doubles: NaN is contagious, and a page of 1e21
\* gives a start index beyond every array
StartIndex(page, limit) ==
  IF page = NaN \/ limit = NaN THEN NaN
  ELSE IF page = Exp21 THEN Exp21
  ELSE (page - 1) * limit

\* The relative index Array.prototype.slice makes of an argument:
\* NaN is 0, a negative index counts back from the end
RelativeIndex(k, len) ==
  IF k = NaN THEN 0
  ELSE IF k < 0 THEN MathMax(len + k, 0)
  ELSE MathMin(k, len)

\* Array.prototype.slice(start, end)
Slice(s, start, end) ==
  LET from == RelativeIndex(start, Len(s))
      to == RelativeIndex(end, Len(s))
  IN SubSeq(s, from + 1, to)

\* A destructured filter parameter: the array passed, or undefined (<<>>)
ParamValues(params, key) ==
  IF key \in Keys(params.filters)
  THEN params.filters[Lookup(params.filters, key)].values
  ELSE <<>>

\* Mutant of MatchesItem: the gender parameter is not applied
MatchesItemIgnoringGender(item, params) ==
  LET studentClass == ParamValues(params, "studentClass")
      house == ParamValues(params, "house")
  IN /\ Len(studentClass) > 0 => toString(item.class) \in Range(studentClass)
     /\ Len(house) > 0 => item.house \in Range(house)

\* The callback of allSchoolData.filter, mockApi.js 66-87
MatchesItem(item, params) ==
  LET studentClass == ParamValues(params, "studentClass")
      gender == ParamValues(params, "gender")
      house == ParamValues(params, "house")
  IN /\ Len(studentClass) > 0 => toString(item.class) \in Range(studentClass)
     /\ Len(gender) > 0 => item.gender \in Range(gender)
     /\ Len(house) > 0 => item.house \in Range(house)

\* mockGetReport after its delay, mockApi.js 63-108
mockGetReport(params) ==
  LET filteredData == SelectSeq(allSchoolData,
                                LAMBDA item : MatchesItem(item, params))
      startIndex == StartIndex(params.page, params.limit)
      paginatedData == Slice(filteredData, startIndex,
                             Plus(startIndex, params.limit))
  IN [dataMapping |-> <<"id", "name", "class", "gender", "house">>,
      schoolInfo |-> paginatedData,
      total |-> Len(filteredData)]

\* What fetchData reads of the mock's answer: dataMapping present, the
\* number of rows under dataKey, and total
MockResponse(call) ==
  LET result == mockGetReport(call.params)
  IN [kind |-> "ok", total |-> result.total, len |-> Len(result.schoolInfo)]

\* A call made to mockGetReport resolves
FetchMock ==
  /\ pc = "idle"
  /\ \E i \in 1..Len(inflight) : fetchData(i, MockResponse(inflight[i]))

\* Query strings SchoolDataPage is opened with in the runs over the mock
MockSearches ==
  { <<>>,
    <<Pair("page", "", <<"1">>), Pair("limit", "", <<"2", "0">>),
      Pair("gender", "[]", <<"Female">>)>>,
    <<Pair("limit", "", <<"5">>), Pair("gender", "[]", <<"Female">>)>>,
    <<Pair("page", "", <<"6">>)>> }

InitMock == InitFrom(MockSearches)

NextMock ==
  \/ InitEffect
  \/ FlushEffects
  \/ FetchMock
  \/ ChangePage
  \/ ChangeRowsPerPage
  \/ OpenFilter
  \/ EditFilter
  \/ applyFilters
  \/ resetFilters
  \/ handleClose

\* SchoolDataPage: the Report over mockGetReport.  Queued effects are run
\* and mockGetReport answers every call.
SpecMock ==
  /\ InitMock
  /\ [][NextMock]_vars
  /\ WF_vars(InitEffect)
  /\ WF_vars(FlushEffects)
  /\ WF_vars(FetchMock)

\* The codec alone: every query string of CodecSearches is decoded and
\* re-encoded by the initialization effect.
InitCodec == InitFrom(CodecSearches)

SpecCodec == InitCodec /\ [][InitEffect]_vars

\* Normalization alone: as SpecCodec, over NormalizeSearches.
InitNormalize == InitFrom(NormalizeSearches)

SpecNormalize == InitNormalize /\ [][InitEffect]_vars

\* ================================================================ claims

\* C1: last-triggered-wins.  Once every triggered call has settled, the
\* display was last written by the most recently triggered call, never by
\* the response of an older one.
LastTriggeredWins == (inflight = <<>> /\ pc = "idle") => lastWriter # "stale"

\* C2: URL/state isomorphism.  Whenever the view is initialized and the URL
\* sync effect has run for the current ReportState, decoding the current
\* query string gives exactly pageNumber, itemsPerPage and appliedFilter.
UrlStateIsomorphism ==
  (initialized /\ pc = "idle") =>
    parseUrlParams(location, allowedFilterKeys)
      = [page |-> pageNumber, limit |-> itemsPerPage, filters |-> appliedFilter]

\* The out-of-range condition as the pagination-correction policy words it
ClaimedOutOfRange(call, total) ==
  \/ Greater(total, 0)
       /\ GreaterEq(call.pageNumber, CeilDiv(total, call.itemsPerPage))
  \/ total = 0 /\ call.pageNumber # 0

\* C3: pagination correction.  Whenever a call settles with a well-formed
\* response whose total puts the call's page out of range, pageNumber
\* becomes 0, the display is not written, and the effects that fetch page 1
\* are queued.
CorrectionStep ==
  \A i \in 1..Len(inflight) : \A r \in Responses :
    (pc = "idle" /\ r.kind = "ok" /\ ClaimedOutOfRange(inflight[i], r.total)
       /\ fetchData(i, r))
    => (pageNumber' = 0 /\ UNCHANGED display /\ pc' = "pending")

PaginationCorrection == [][CorrectionStep]_vars

\* C4: valid values only.  Every value of every appliedFilter fragment is
\* one of the options the Filter Option Source lists for the fragment's key.
ValidValuesOnly ==
  \A i \in 1..Len(appliedFilter) :
    Range(appliedFilter[i].values) \subseteq ValidOptions(appliedFilter[i].key)

\* C5: whitelist enforcement.  Every key of appliedFilter, of tempFilters
\* and of every call's filter parameters is in allowedFilterKeys, and once
\* the view is initialized every history entry carries only page, limit
\* and allowed filter keys.
WhitelistEnforced ==
  /\ Keys(appliedFilter) \subseteq Range(allowedFilterKeys)
  /\ Keys(tempFilters) \subseteq Range(allowedFilterKeys)
  /\ \A i \in 1..Len(inflight) :
       Keys(inflight[i].params.filters) \subseteq Range(allowedFilterKeys)
  /\ initialized =>
       \A h \in 1..Len(history) : \A j \in 1..Len(history[h]) :
         history[h][j].key \in Range(allowedFilterKeys) \cup ReservedKeys

\* The view was opened with a key outside the whitelist next to an allowed
\* one, initialized, and called getReport with the filters it kept.
WhitelistWitness ==
  /\ initialized
  /\ \E j \in 1..Len(initialSearch) :
       initialSearch[j].key \notin Range(allowedFilterKeys) \cup ReservedKeys
  /\ appliedFilter # <<>>
  /\ inflight # <<>>

\* C6: initialization adds no history entry.  From the mount until the
\* effects of the first initialized render have run, no step changes the
\* number of history entries.
MountStep == pc \in {"mount", "init"} => Len(history') = Len(history)

MountAddsNoHistory == [][MountStep]_vars

\* C7: phase discipline.  initialized is set once, by the mount's effects,
\* and never cleared; no getReport call and no pushed history entry is
\* made by a render that is not initialized; the only in-place (replace)
\* URL write is the one of the initializing step.
PhaseStep ==
  /\ (Len(inflight') > Len(inflight) => initialized)
  /\ (Len(history') > Len(history) => initialized)
  /\ (Len(history') = Len(history) /\ history' # history
        => ~initialized /\ initialized')
  /\ (initialized => initialized')
  /\ (~initialized /\ initialized' => pc = "mount" /\ pc' = "init")
  /\ (~initialized' => inflight' = <<>> /\ history' = <<initialSearch>>)

PhaseDiscipline == [][PhaseStep]_vars

\* Initialization replaced the URL in place, a later state change pushed an
\* entry, and a call is outstanding.
PhaseWitness ==
  /\ initialized
  /\ Len(history) = 2
  /\ history[1] # initialSearch
  /\ inflight # <<>>

\* A value made only of digits, with an optional minus sign before them
IsDecimal(s) ==
  LET d == IF s # <<>> /\ Head(s) = "-" THEN Tail(s) ELSE s
  IN d # <<>> /\ \A i \in 1..Len(d) : IsDigit(d[i])

\* A value with no digit, sign or blank in it
IsWord(s) ==
  s # <<>> /\ \A i \in 1..Len(s) : ~IsDigit(s[i]) /\ s[i] \notin {"+", "-", " "}

DecimalValue(s) ==
  IF Head(s) = "-" THEN 0 - ParseDigits(Tail(s), 0, FALSE)
  ELSE ParseDigits(s, 0, FALSE)

\* limit as the clamping rule states it: absent, zero, negative and
\* non-numeric give 20, more than 50 gives 50
ClaimedLimit(s) ==
  IF s = <<>> \/ IsWord(s) THEN 20
  ELSE IF DecimalValue(s) <= 0 THEN 20
  ELSE IF DecimalValue(s) > 50 THEN 50 ELSE DecimalValue(s)

\* page as the rule states it: absent, zero, negative and non-numeric give
\* pageNumber 0, p >= 1 gives p - 1
ClaimedPage(s) ==
  IF s = <<>> \/ IsWord(s) THEN 0
  ELSE IF DecimalValue(s) <= 0 THEN 0 ELSE DecimalValue(s) - 1

\* C8: limit/page decoding.  After initialization from a query string whose
\* limit (page) is absent, a decimal integer or a non-numeric word,
\* itemsPerPage (pageNumber) is the value the clamping rule gives.
LimitPageDecoding ==
  initialized =>
    LET rawLimit == ParamsGet(initialSearch, "limit")
        rawPage == ParamsGet(initialSearch, "page")
    IN /\ (rawLimit = <<>> \/ IsDecimal(rawLimit) \/ IsWord(rawLimit))
            => itemsPerPage = ClaimedLimit(rawLimit)
       /\ (rawPage = <<>> \/ IsDecimal(rawPage) \/ IsWord(rawPage))
            => pageNumber = ClaimedPage(rawPage)

\* C9: PageState bounds.  In every reachable state itemsPerPage is an
\* integer in 1..50 and pageNumber is an integer >= 0.
PageStateBounds == itemsPerPage \in 1..50 /\ pageNumber \in Nat

\* C10: filter edit isolation.  A step that changes tempFilters while the
\* editor stays open changes the entry of one key only and leaves
\* ReportState, the history and the outstanding calls as they were.
EditStep ==
  (filterOpen /\ filterOpen' /\ tempFilters' # tempFilters) =>
    /\ \E k \in Range(allowedFilterKeys) :
         /\ Keys(tempFilters') = Keys(tempFilters) \cup {k}
         /\ \A j \in Keys(tempFilters) \ {k} :
              tempFilters'[Lookup(tempFilters', j)]
                = tempFilters[Lookup(tempFilters, j)]
    /\ UNCHANGED <<reportState, history, inflight, showLoader>>

EditIsolation == [][EditStep]_vars

\* Two edits in a row, of two different keys, with nothing committed
EditWitness ==
  /\ filterOpen
  /\ appliedFilter = <<>>
  /\ Len(tempFilters) = 2
  /\ \A i \in 1..Len(tempFilters) : tempFilters[i].values # <<>>

\* AppliedFilterSet restricted to the allowed keys and, per key, to the
\* values the Filter Option Source lists
RECURSIVE RestrictedToValid(_)
RestrictedToValid(filters) ==
  IF filters = <<>> THEN <<>>
  ELSE (IF Head(filters).key \in Range(allowedFilterKeys)
        THEN <<[key |-> Head(filters).key,
                values |-> SelectSeqBy(Head(filters).values,
                                       ValidOptions(Head(filters).key))]>>
        ELSE <<>>) \o RestrictedToValid(Tail(filters))

\* C11: discard.  Neither an edit nor closing the editor without applying
\* changes appliedFilter, pageNumber, itemsPerPage or the history, or makes
\* a getReport call; closing closes the editor; and whenever the editor
\* opens, tempFilters is appliedFilter restricted to the valid options, so
\* no discarded edit survives.
DiscardStep ==
  /\ (EditFilter \/ handleClose)
       => UNCHANGED <<reportState, history, inflight, showLoader, pc>>
  /\ handleClose => ~filterOpen'
  /\ (~filterOpen /\ filterOpen')
       => (tempFilters' = RestrictedToValid(appliedFilter')
           /\ appliedFilter' = appliedFilter)

Discard == [][DiscardStep]_vars

\* The editor was opened on a filter set from the URL and closed without
\* applying: the editor is shut, its tempFilters is the re-derived one and
\* appliedFilter, the URL and the settled calls are as before.
DiscardWitness ==
  /\ ~filterOpen
  /\ appliedFilter = <<[key |-> "gender", values |-> <<<<"Alien">>>>]>>
  /\ tempFilters = <<[key |-> "gender", values |-> <<>>]>>
  /\ Len(history) = 1
  /\ inflight = <<>>
  /\ lastWriter = "latest"

\* C12: commit.  applyFilters sets appliedFilter to exactly one fragment per
\* tempFilters key whose value sequence is non-empty, carrying that
\* sequence unchanged, with no fragment for a key whose sequence is empty
\* and no fragment with an empty value sequence, and closes the editor.
CommitStep ==
  applyFilters =>
    /\ \A k \in Keys(tempFilters) :
         SelectedValues(k) # <<>> =>
           /\ Cardinality({i \in 1..Len(appliedFilter') :
                             appliedFilter'[i].key = k}) = 1
           /\ \E i \in 1..Len(appliedFilter') :
                appliedFilter'[i] = [key |-> k, values |-> SelectedValues(k)]
    /\ \A i \in 1..Len(appliedFilter') :
         /\ appliedFilter'[i].key \in Keys(tempFilters)
         /\ appliedFilter'[i].values # <<>>
         /\ SelectedValues(appliedFilter'[i].key) # <<>>
    /\ ~filterOpen'

Commit == [][CommitStep]_vars

\* A commit of an editor holding one key with an empty selection and one
\* key with a selected value: the applied set has the second key only, and
\* the call for it is outstanding.
CommitWitness ==
  /\ ~filterOpen
  /\ Len(tempFilters) = 2
  /\ \E i \in 1..2 : tempFilters[i] = [key |-> "gender", values |-> <<>>]
  /\ appliedFilter = <<[key |-> "house", values |-> <<<<"Red">>>>]>>
  /\ inflight # <<>>

\* C13: reset.  resetFilters turns every allowed key's tempFilters entry
\* into the empty sequence, empties appliedFilter and closes the editor;
\* after it the current query string has the keys page and limit only and
\* the call it makes carries no filter parameter.
ResetStep ==
  resetFilters =>
    /\ Keys(tempFilters') = Range(allowedFilterKeys)
    /\ \A i \in 1..Len(tempFilters') : tempFilters'[i].values = <<>>
    /\ appliedFilter' = <<>>
    /\ ~filterOpen'
    /\ \A j \in 1..Len(Last(history')) :
         Last(history')[j].key \in ReservedKeys /\ Last(history')[j].br = ""
    /\ Len(inflight') = Len(inflight) + 1
    /\ Last(inflight').params.filters = <<>>

Reset == [][ResetStep]_vars

\* A reset of a view that had a filter applied: the entry with the filter
\* is still in the history, the current one has page and limit only, and
\* the unfiltered call is outstanding.
ResetWitness ==
  /\ ~filterOpen
  /\ Len(tempFilters) = Len(allowedFilterKeys)
  /\ \A i \in 1..Len(tempFilters) : tempFilters[i].values = <<>>
  /\ appliedFilter = <<>>
  /\ Len(history) = 2
  /\ Len(history[1]) > Len(history[2])
  /\ inflight # <<>>
  /\ Last(inflight).params.filters = <<>>

\* C14: open/seed re-validation.  Whenever the editor opens, tempFilters
\* has exactly the appliedFilter keys that are in allowedFilterKeys, and
\* under each of them the appliedFilter values that getMockFilterOptions
\* lists for the key, in their original order; other values and other
\* keys are absent.
SeedStep ==
  (~filterOpen /\ filterOpen') =>
    /\ Keys(tempFilters') = Keys(appliedFilter) \cap Range(allowedFilterKeys)
    /\ Len(tempFilters') = Cardinality(Keys(tempFilters'))
    /\ \A i \in 1..Len(appliedFilter) :
         appliedFilter[i].key \in Range(allowedFilterKeys) =>
           LET options ==
                 Range(getMockFilterOptions(getFilterName(appliedFilter[i].key)))
               seeded ==
                 tempFilters'[Lookup(tempFilters', appliedFilter[i].key)].values
           IN seeded = SelectSeqBy(appliedFilter[i].values, options)

SeedRevalidation == [][SeedStep]_vars

\* The editor is open on an appliedFilter that holds a value the option
\* source does not list: the key is seeded, the value is not.
SeedWitness ==
  /\ filterOpen
  /\ appliedFilter = <<[key |-> "gender", values |-> <<<<"Alien">>>>]>>
  /\ tempFilters = <<[key |-> "gender", values |-> <<>>]>>

\* C15: Data Provider failure.  When a call rejects, columns and rows
\* become empty and total 0, the error notice is raised, showLoader becomes
\* false, no call is made and no effect is queued by the step (no retry),
\* and pageNumber, itemsPerPage, appliedFilter and the history are left
\* as they were.
FailureStep ==
  \A i \in 1..Len(inflight) : \A r \in Responses :
    (pc = "idle" /\ r.kind = "reject" /\ fetchData(i, r)) =>
      /\ columnTitles' = "none" /\ rowsData' = 0 /\ totalItems' = 0
      /\ snackbarMessage' = "error"
      /\ ~showLoader'
      /\ Len(inflight') = Len(inflight) - 1
      /\ pc' = "idle"
      /\ UNCHANGED <<reportState, history>>

ProviderFailure == [][FailureStep]_vars

\* After a state change that pushed a history entry, the call made for it
\* was rejected: the error notice is up, the display is empty, nothing is
\* outstanding or queued.
FailureWitness ==
  /\ snackbarMessage = "error"
  /\ totalItems = 0 /\ rowsData = 0 /\ columnTitles = "none"
  /\ ~showLoader
  /\ inflight = <<>>
  /\ pc = "idle"
  /\ Len(history) = 2

\* C16: malformed Data Provider response.  When a call resolves with a
\* value that is not an object, or with an object that lacks dataMapping,
\* the row array and the numeric total, columns and rows become empty and
\* total 0, the warning notice is raised, and pageNumber, itemsPerPage and
\* appliedFilter are left as they were.
MalformedStep ==
  \A i \in 1..Len(inflight) : \A r \in Responses :
    (pc = "idle" /\ r.kind \in {"null", "empty"} /\ fetchData(i, r)) =>
      /\ columnTitles' = "none" /\ rowsData' = 0 /\ totalItems' = 0
      /\ snackbarMessage' = "invalid"
      /\ UNCHANGED reportState

MalformedResponse == [][MalformedStep]_vars

\* C17: loading while fetching.  In every reachable state with a getReport
\* call outstanding, showLoader is true, so neither the table nor the
\* filter button is rendered.
LoadingWhileFetching == inflight # <<>> => showLoader

\* C18: one fetch per state change.  The effects of the first initialized
\* render make exactly one getReport call; a step that changes pageNumber,
\* itemsPerPage or appliedFilter makes exactly one call, or queues the
\* effects that make it; and a step that leaves the three unchanged, with
\* no effects queued, makes no call.
OneFetchStep ==
  /\ pc = "init" => Len(inflight') = Len(inflight) + 1
  /\ (pc = "idle" /\ reportState' # reportState) =>
       \/ Len(inflight') = Len(inflight) + 1 /\ pc' = "idle"
       \/ Len(inflight') = Len(inflight) - 1 /\ pc' = "pending"
  /\ (pc = "idle" /\ reportState' = reportState) =>
       Len(inflight') <= Len(inflight)

OneFetchPerChange == [][OneFetchStep]_vars

\* C19: push only on difference.  Once initialized, history entries are
\* only added at the end, each added entry differs from the one before it,
\* after the URL sync effect has run the current query string is the
\* serialization of pageNumber, itemsPerPage and appliedFilter, and a
\* commit whose serialization is the current query string adds no entry.
PushStep ==
  /\ initialized => SubSeq(history', 1, Len(history)) = history
  /\ \A j \in (Len(history) + 1)..Len(history') :
       history'[j] # history'[j - 1]
  /\ (initialized' /\ pc' = "idle") =>
       Last(history') = SyncQuery(pageNumber', itemsPerPage', appliedFilter')
  /\ (applyFilters
        /\ SyncQuery(pageNumber', itemsPerPage', appliedFilter') = location)
       => history' = history

PushOnlyOnDifference == [][PushStep]_vars

\* Apply or reset ran the effects again (the call is outstanding after an
\* earlier response was displayed) without the serialization changing:
\* the history still has its single entry.
PushWitness ==
  /\ initialized
  /\ pc = "idle"
  /\ ~filterOpen
  /\ tempFilters # <<>>
  /\ lastWriter = "latest"
  /\ inflight # <<>>
  /\ Len(history) = 1

\* decode then encode: parseUrlParams, then the query string the
\* initialization effect rebuilds from its result
Normalize(q) ==
  LET d == parseUrlParams(q, allowedFilterKeys)
  IN InitQuery(d.page, d.limit, d.filters)

\* C20: idempotent normalization.  For the query string q the view was
\* opened with, normalizing the normalized query string changes nothing,
\* and it decodes to what q decodes to (the state initialization set).
IdempotentNormalization ==
  initialized =>
    /\ Normalize(Normalize(initialSearch)) = Normalize(initialSearch)
    /\ parseUrlParams(Normalize(initialSearch), allowedFilterKeys)
         = [page |-> pageNumber, limit |-> itemsPerPage,
            filters |-> appliedFilter]

\* A ReportState the round trip is stated for: pageNumber >= 0,
\* itemsPerPage in 1..50, one fragment per key, every key allowed, every
\* value sequence non-empty and without duplicates
RoundTripState ==
  /\ pageNumber # NaN /\ pageNumber >= 0
  /\ itemsPerPage \in 1..50
  /\ Cardinality(Keys(appliedFilter)) = Len(appliedFilter)
  /\ Keys(appliedFilter) \subseteq Range(allowedFilterKeys)
  /\ \A i \in 1..Len(appliedFilter) :
       /\ appliedFilter[i].values # <<>>
       /\ Cardinality(Range(appliedFilter[i].values))
            = Len(appliedFilter[i].values)

\* C21: codec round trip.  For every such ReportState, decoding the query
\* string the URL sync effect builds for it gives the same pageNumber,
\* itemsPerPage and appliedFilter, fragments and values in the same order.
CodecRoundTrip ==
  (initialized /\ RoundTripState) =>
    parseUrlParams(SyncQuery(pageNumber, itemsPerPage, appliedFilter),
                   allowedFilterKeys)
      = [page |-> pageNumber, limit |-> itemsPerPage, filters |-> appliedFilter]

\* C22: no out-of-range page is rendered.  Whenever the table is visible
\* (initialized and showLoader false), pageNumber is 0 or less than
\* ceil(totalItems / itemsPerPage).
PageInRange ==
  (initialized /\ ~showLoader) =>
    \/ pageNumber = 0
    \/ /\ pageNumber # NaN /\ itemsPerPage # NaN
       /\ pageNumber < CeilDiv(totalItems, itemsPerPage)

\* C23: success notices.  When a call resolves with a well-formed response
\* and the page is in range for its total, columns, rows and total become
\* the response's, and the notice is "no data for current page" exactly
\* when rows is empty and total > 0, "no data found" exactly when total is
\* 0, and no notice is raised otherwise.
NoticeStep ==
  \A i \in 1..Len(inflight) : \A r \in Responses :
    (pc = "idle" /\ r.kind = "ok" /\ ~ClaimedOutOfRange(inflight[i], r.total)
       /\ fetchData(i, r))
    => /\ columnTitles' = "dataMapping"
       /\ rowsData' = r.len
       /\ totalItems' = r.total
       /\ (r.len = 0 /\ r.total > 0) => snackbarMessage' = "noDataPage"
       /\ r.total = 0 => snackbarMessage' = "noDataFilters"
       /\ (r.len > 0 /\ r.total > 0) => snackbarMessage' = snackbarMessage
       /\ (snackbarMessage' = "noDataPage" /\ snackbarMessage # "noDataPage")
            => (r.len = 0 /\ r.total > 0)
       /\ (snackbarMessage' = "noDataFilters"
             /\ snackbarMessage # "noDataFilters") => r.total = 0

SuccessNotices == [][NoticeStep]_vars

\* A response with a positive total and no rows for the page was
\* committed: the display has its total and the page notice is up.
NoticeWitness ==
  /\ snackbarMessage = "noDataPage"
  /\ columnTitles = "dataMapping"
  /\ rowsData = 0
  /\ totalItems = 45
  /\ ~showLoader

\* C24: fetch parameters.  Every getReport call is made with page equal to
\* pageNumber + 1, limit equal to itemsPerPage and, for each appliedFilter
\* key, that key's value sequence and nothing else, of the ReportState the
\* call is made for; page is at least 1 and limit is in 1..50.
FetchParamsStep ==
  Len(inflight') > Len(inflight) =>
    LET params == Last(inflight').params
    IN /\ params.page >= 1
       /\ params.limit \in 1..50
       /\ params.page = pageNumber' + 1
       /\ params.limit = itemsPerPage'
       /\ Keys(params.filters) = Keys(appliedFilter')
       /\ \A i \in 1..Len(appliedFilter') :
            params.filters[Lookup(params.filters, appliedFilter'[i].key)].values
              = appliedFilter'[i].values

FetchParameters == [][FetchParamsStep]_vars

\* The positions at which key k occurs in a query string, however its
\* array suffix is written
OccurrencesOf(search, k) == {j \in 1..Len(search) : search[j].key = k}

\* C25: decode accumulation.  The filters parseUrlParams gives for a query
\* string have exactly one fragment for each allowed key that occurs in
\* it, holding the values of all its occurrences in encounter order;
\* fragments are ordered by their key's first occurrence; and page and
\* limit give no fragment, written array-style or listed as allowed.
DecodeAccumulation ==
  initialized =>
    /\ Cardinality(Keys(appliedFilter)) = Len(appliedFilter)
    /\ Keys(appliedFilter)
         = {k \in Range(allowedFilterKeys) \ ReservedKeys :
              OccurrencesOf(initialSearch, k) # {}}
    /\ \A i \in 1..Len(appliedFilter) :
         LET at == OccurrencesOf(initialSearch, appliedFilter[i].key)
             values == appliedFilter[i].values
         IN /\ Len(values) = Cardinality(at)
            /\ \A n \in 1..Len(values) :
                 \E j \in at :
                   /\ Cardinality({h \in at : h <= j}) = n
                   /\ initialSearch[j].val = values[n]
    /\ \A i, j \in 1..Len(appliedFilter) :
         i < j =>
           \E a \in OccurrencesOf(initialSearch, appliedFilter[i].key) :
             \A b \in OccurrencesOf(initialSearch, appliedFilter[j].key) :
               a < b
    /\ parseUrlParams(initialSearch,
                      allowedFilterKeys \o <<"page", "limit">>).filters
         = appliedFilter

\* A query string with page in it and the key gender twice, once with and
\* once without the array suffix, was decoded into one fragment.
AccumulationWitness ==
  /\ initialized
  /\ ParamsGet(initialSearch, "page") # <<>>
  /\ appliedFilter
       = <<[key |-> "gender", values |-> <<<<"Male">>, <<"Female">>>>]>>

\* C26: one canonical serialization.  For the ReportState initialization
\* produced, the query string the initialization effect built and the one
\* the URL sync effect builds are the same, so the first URL sync run
\* finds the URL equal to its query string.
OneCanonicalSerialization ==
  (initialized /\ pc = "init") =>
    /\ InitQuery(pageNumber, itemsPerPage, appliedFilter)
         = SyncQuery(pageNumber, itemsPerPage, appliedFilter)
    /\ location = SyncQuery(pageNumber, itemsPerPage, appliedFilter)

\* The view has nothing queued or outstanding and a response is on display
Quiescent ==
  /\ initialized
  /\ pc = "idle"
  /\ inflight = <<>>
  /\ ~showLoader
  /\ columnTitles = "dataMapping"
  /\ lastWriter # "none"

\* The run is cut off: the queued effects would take the history or the
\* outstanding calls past the bounds the model follows
CutOff ==
  /\ pc \in {"init", "pending"}
  /\ ~WithinBounds(RunEffects(initialized, Current, location,
                              pageNumber, itemsPerPage, appliedFilter))

\* What the answer to the call made for the current ReportState does
TerminatesStep ==
  \A i \in 1..Len(inflight) :
    LET call == inflight[i]
        r == SteadyResponse(call)
    IN (pc = "idle" /\ call.latest /\ fetchData(i, r)) =>
         IF NeedsCorrection(call, r.total)
         THEN /\ call.pageNumber # 0
              /\ pageNumber # 0
              /\ pageNumber' = 0
              /\ pc' = "pending"
         ELSE /\ totalItems' = r.total
              /\ lastWriter' = "latest"
              /\ UNCHANGED <<pageNumber, pc>>

\* A call for page 1 (pageNumber 0) is never answered by a correction
RefetchCommits ==
  \A i \in 1..Len(inflight) :
    inflight[i].pageNumber = 0 =>
      ~NeedsCorrection(inflight[i], SteadyResponse(inflight[i]).total)

LoadingEnds ==
  (initialized /\ pc = "idle" /\ inflight = <<>>) => ~showLoader

\* Opened on page 6, corrected, and the re-fetch resolved with a value that
\* is not an object: everything has settled and the loader is gone.
LoadingEndsWitness ==
  /\ initialized
  /\ pc = "idle"
  /\ inflight = <<>>
  /\ ~showLoader
  /\ ParamsGet(initialSearch, "page") = <<"6">>
  /\ pageNumber = 0
  /\ snackbarMessage = "invalid"

\* C29: rows-per-page change.  With no effect queued, selecting a
\* rows-per-page value other than the current one sets itemsPerPage to it
\* and pageNumber to 0 in one step that makes exactly one getReport call,
\* for page 1 with the new limit, and adds at most one history entry; a
\* page change sets pageNumber and leaves itemsPerPage and appliedFilter.
TableStep ==
  /\ \A value \in RowsPerPageOptions :
       (pc = "idle" /\ value # itemsPerPage /\ handleChangeRowsPerPage(value))
       => /\ itemsPerPage' = value
          /\ pageNumber' = 0
          /\ appliedFilter' = appliedFilter
          /\ Len(inflight') = Len(inflight) + 1
          /\ Last(inflight').params.page = 1
          /\ Last(inflight').params.limit = value
          /\ Len(history') <= Len(history) + 1
          /\ pc' = "idle"
  /\ \A newPage \in OfferedPages :
       (pc = "idle" /\ handleChangePage(newPage))
       => /\ pageNumber' = newPage
          /\ UNCHANGED <<itemsPerPage, appliedFilter>>
          /\ Len(inflight') = Len(inflight) + 1

RowsPerPageChange == [][TableStep]_vars

\* The table was showing page 6 when 5 rows per page was selected: the
\* state is page 1 with limit 5, one entry was pushed, and the call for
\* it is outstanding.
RowsPerPageWitness ==
  /\ ParamsGet(history[1], "page") = <<"6">>
  /\ Len(history) = 2
  /\ itemsPerPage = 5
  /\ pageNumber = 0
  /\ Len(inflight) = 1
  /\ Last(inflight).params.limit = 5

\* C30: history navigation.  After the user goes back to an entry the
\* view wrote, with nothing queued or outstanding, pageNumber,
\* itemsPerPage and appliedFilter are the decoding of that entry's query
\* string.
NavigationStep ==
  (/\ GoBack
   /\ inflight = <<>>
   /\ (Len(history') > 1 \/ Last(history') # initialSearch))
  => parseUrlParams(Last(history'), allowedFilterKeys)
       = [page |-> pageNumber', limit |-> itemsPerPage',
          filters |-> appliedFilter']

HistoryNavigation == [][NavigationStep]_vars


\* C31: AppliedFilterSet shape: in every state the committed filters hold at
\* most one fragment per filter key, every fragment has at least one value,
\* and no value occurs twice under the same key.
AppliedFilterShape ==
  /\ \A i, j \in 1..Len(appliedFilter) :
        appliedFilter[i].key = appliedFilter[j].key => i = j
  /\ \A i \in 1..Len(appliedFilter) :
        /\ appliedFilter[i].values # <<>>
        /\ \A a, b \in 1..Len(appliedFilter[i].values) :
              appliedFilter[i].values[a] = appliedFilter[i].values[b] => a = b


\* The record field a filter key selects on, as the text the options use
FieldValue(item, key) ==
  CASE key = "studentClass" -> toString(item.class)
    [] key = "gender" -> item.gender
    [] key = "house" -> item.house

\* Positions in the fixture of the records matching every supplied
\* non-empty filter
MatchingRecords(params) ==
  {n \in 1..Len(allSchoolData) :
     \A f \in 1..Len(params.filters) :
       (/\ params.filters[f].key \in Range(allowedFilterKeys)
        /\ params.filters[f].values # <<>>)
       => FieldValue(allSchoolData[n], params.filters[f].key)
            \in Range(params.filters[f].values)}

\* The k-th matching record in fixture order
NthMatching(params, k) ==
  LET m == MatchingRecords(params)
  IN allSchoolData[CHOOSE n \in m : Cardinality({j \in m : j < n}) = k - 1]

\* Records (page-1)*limit .. page*limit-1 of the matching records
ExpectedRows(params) ==
  LET total == Cardinality(MatchingRecords(params))
      first == (params.page - 1) * params.limit
      last == MathMin(params.page * params.limit, total)
  IN [k \in 1..MathMax(last - first, 0) |-> NthMatching(params, first + k)]

\* Every call outstanding with a numeric page and limit is answered with
\* the matching records' count and the requested window of them
MockAnswers ==
  \A i \in 1..Len(inflight) :
    LET params == inflight[i].params
        result == mockGetReport(params)
    IN (params.page \in 1..1000 /\ params.limit \in 1..50) =>
         /\ result.total = Cardinality(MatchingRecords(params))
         /\ result.schoolInfo = ExpectedRows(params)
         /\ Len(result.schoolInfo) <= params.limit

\* page=1&limit=20&gender[]=Female
ScenarioSearch ==
  <<Pair("page", "", <<"1">>), Pair("limit", "", <<"2", "0">>),
    Pair("gender", "[]", <<"Female">>)>>

FemaleRecords ==
  {n \in 1..Len(allSchoolData) : allSchoolData[n].gender = <<"Female">>}

ScenarioFilter == <<[key |-> "gender", values |-> <<<<"Female">>>>]>>

\* No call for the scenario's state is answered by a pagination correction
ScenarioUncorrected ==
  \A i \in 1..Len(inflight) :
    inflight[i].params = apiParams(0, 20, ScenarioFilter) =>
      ~NeedsCorrection(inflight[i], MockResponse(inflight[i]).total)

\* The view shows the scenario's result: page 1 with every female record,
\* and the URL carries page, limit and the one gender value
ScenarioResult ==
  /\ pageNumber = 0
  /\ itemsPerPage = 20
  /\ appliedFilter = ScenarioFilter
  /\ totalItems = Cardinality(FemaleRecords)
  /\ rowsData = Cardinality(FemaleRecords)
  /\ ParamsGet(location, "page") = <<"1">>
  /\ ParamsGet(location, "limit") = <<"2", "0">>
  /\ \E j \in 1..Len(location) :
        /\ location[j].key = "gender"
        /\ location[j].val = <<"Female">>
        /\ \A k \in 1..Len(location) :
              k # j => location[k].key \in ReservedKeys

\* However the scenario's state was requested, once the view is quiescent
\* on the answer to its latest call it shows the scenario's result
ScenarioShown ==
  (/\ Quiescent
   /\ lastWriter = "latest"
   /\ reportState = <<0, 20, ScenarioFilter>>)
  => ScenarioResult

ScenarioEnd == Quiescent /\ ScenarioResult

\* The view's state is the scenario's request
ScenarioRequested ==
  reportState = <<0, 20, ScenarioFilter>> /\ lastWriter # "stale"

\* The steps the view takes when the user leaves it alone
UntouchedStep == InitEffect \/ FlushEffects \/ FetchMock

\* C32: end-to-end with the mock Data Provider.  mockGetReport answers a
\* call with total equal to the number of fixture records matching every
\* supplied non-empty filter and with rows (page-1)*limit .. page*limit-1
\* of the matching records in fixture order, at most limit of them; a call
\* for page=1, limit=20, gender=[Female] is never answered by a pagination
\* correction; and once the user makes no further change, the view whose
\* state is that request (and whose display no superseded call overwrote)
\* ends quiescent with total equal to the count of female records and a
\* URL carrying page=1, limit=20 and the single gender value Female (in
\* every run the bounds do not cut off).
EndToEndMock ==
  /\ [](MockAnswers /\ ScenarioUncorrected /\ ScenarioShown)
  /\ (<>[][UntouchedStep]_vars
        => <>[](CutOff \/ (ScenarioRequested => ScenarioEnd)))

\* The scenario has run to its end.
EndToEndWitness ==
  initialSearch = ScenarioSearch /\ ScenarioEnd /\ lastWriter = "latest"

====
